---- MODULE Spec2Model ----
(***************************************************************************)
(* Partition functions and level populations of one plasma cell            *)
(* (partition.c, levels.c).                                                *)
(*                                                                         *)
(* Numbers.  A C double is modelled as a fixed-point integer: the value x  *)
(* is the integer x * SCALE.  Sums are exact, a product or a quotient of   *)
(* two doubles is rescaled (Mul, Div).  Statistical weights g are small    *)
(* whole numbers in the atomic data and are kept as plain integers.        *)
(* Energies are in units in which the Boltzmann constant is 1.             *)
(***************************************************************************)
EXTENDS Integers, Sequences, FiniteSets, TLC

\* ------------------------------------------------------------------------
\* Arithmetic on doubles
\* ------------------------------------------------------------------------

\* one unit of a double (1.0)
SCALE == 10000

Mul(a, b) == (a * b) \div SCALE

Div(a, b) == (a * SCALE) \div b

\* exp(-h/2) for h = 0 .. 8, to four decimals
ExpTable == << 10000, 6065, 3679, 2231, 1353, 821, 498, 302, 183 >>

\* libm exp on the grid of arguments that occurs: x = -h/2, h = 0 .. 8
exp(x) == ExpTable[((0 - x) \div (SCALE \div 2)) + 1]

Abs(x) == IF x < 0 THEN 0 - x ELSE x

\* ------------------------------------------------------------------------
\* Modes (maps.h)
\* ------------------------------------------------------------------------
NEBULARMODE_TR == 0
NEBULARMODE_TE == 1
NEBULARMODE_ML93 == 2
NEBULARMODE_NLTE_SIM == 3
NEBULARMODE_LTE_GROUND == 4
NEBULARMODE_PAIRWISE_ML93 == 6
NEBULARMODE_PAIRWISE_SPECTRALMODEL == 7
NEBULARMODE_MATRIX_BB == 8
NEBULARMODE_MATRIX_SPECTRALMODEL == 9

\* the mode values a caller may pass: the nine defined ones and one stray
Modes == { NEBULARMODE_TR, NEBULARMODE_TE, NEBULARMODE_ML93,
           NEBULARMODE_NLTE_SIM, NEBULARMODE_LTE_GROUND,
           NEBULARMODE_PAIRWISE_ML93, NEBULARMODE_PAIRWISE_SPECTRALMODEL,
           NEBULARMODE_MATRIX_BB, NEBULARMODE_MATRIX_SPECTRALMODEL, 5 }

\* ------------------------------------------------------------------------
\* Atomic data: read-only tables ion[] and config[], indexed from 0
\* ------------------------------------------------------------------------
BOLTZMANN == 1

\* ion 0: three levels, detailed and reduced ladder the same
\* ion 1: reduced levels only, ground energy not zero, macro atom with a superlevel
\* ion 2: one level, macro atom
\* ion 3: no levels of either kind
\* ion 4: six levels, macro atom with a superlevel
IonData == <<
  [g |-> 1, nlevels |-> 3, firstlevel |-> 0, nlte |-> 3, first_nlte_level |-> 0,
   first_levden |-> 0, macro_info |-> 0, has_superlevel |-> 0],
  [g |-> 2, nlevels |-> 0, firstlevel |-> 0, nlte |-> 2, first_nlte_level |-> 3,
   first_levden |-> 3, macro_info |-> 1, has_superlevel |-> 1],
  [g |-> 2, nlevels |-> 1, firstlevel |-> 5, nlte |-> 1, first_nlte_level |-> 5,
   first_levden |-> 5, macro_info |-> 1, has_superlevel |-> 0],
  [g |-> 1, nlevels |-> 0, firstlevel |-> 0, nlte |-> 0, first_nlte_level |-> 0,
   first_levden |-> 0, macro_info |-> 0, has_superlevel |-> 0],
  [g |-> 2, nlevels |-> 6, firstlevel |-> 6, nlte |-> 6, first_nlte_level |-> 6,
   first_levden |-> 6, macro_info |-> 1, has_superlevel |-> 1] >>

ConfigData == <<
  [nion |-> 0, g |-> 1, ex |-> 0],
  [nion |-> 0, g |-> 3, ex |-> 1 * SCALE],
  [nion |-> 0, g |-> 5, ex |-> 2 * SCALE],
  [nion |-> 1, g |-> 2, ex |-> 1 * SCALE],
  [nion |-> 1, g |-> 4, ex |-> 2 * SCALE],
  [nion |-> 2, g |-> 2, ex |-> 0],
  [nion |-> 4, g |-> 2, ex |-> 0],
  [nion |-> 4, g |-> 2, ex |-> 1 * SCALE],
  [nion |-> 4, g |-> 4, ex |-> 2 * SCALE],
  [nion |-> 4, g |-> 4, ex |-> 3 * SCALE],
  [nion |-> 4, g |-> 2, ex |-> 4 * SCALE],
  [nion |-> 4, g |-> 2, ex |-> 4 * SCALE] >>

\* elements: element 0 owns ions 0 and 1, element 1 owns ion 2
EleData == <<
  [firstion |-> 0, nions |-> 2, abun |-> SCALE],
  [firstion |-> 2, nions |-> 1, abun |-> SCALE] >>

nions == Len(IonData)

ion == [n \in 0 .. (nions - 1) |-> IonData[n + 1]]

config == [m \in 0 .. (Len(ConfigData) - 1) |-> ConfigData[m + 1]]

ele == [e \in 0 .. (Len(EleData) - 1) |-> EleData[e + 1]]

\* size of the levden array of a cell: one entry per reduced level
NLTE_LEVELS == Len(ConfigData)

\* values the outer loop gives to the temperatures and the dilution factor
Temps == { 1 * SCALE, 2 * SCALE }

Dilutions == { SCALE \div 2, SCALE }

\* weights a caller passes to partition_functions_2
Weights == { 0, SCALE \div 2, SCALE }

\* length of the runs explored: entry-point calls and cell updates
MaxCalls == 3

\* ------------------------------------------------------------------------
\* State
\* ------------------------------------------------------------------------
VARIABLES
  t_e, t_r, w,          \* xplasma->t_e, t_r, w
  partition,            \* xplasma->partition[nion]
  levden,               \* xplasma->levden[n]
  macro_ioniz_mode,     \* geo.macro_ioniz_mode
  pc,                   \* position: idle, pf_loop, levels_loop, pf2_loop, exited
  op,                   \* the entry point called last (running or returned)
  mode,                 \* argument of partition_functions / of a direct levels call
  nion,                 \* loop index of the running routine
  t, weight,            \* locals of partition_functions; weight also argument of partition_functions_2
  lv_mode,              \* argument mode received by levels
  lv_t, lv_weight,      \* locals t, weight of levels
  xnion, temp,          \* arguments of partition_functions_2
  errors,               \* number of Error() messages logged
  levels_calls,         \* levels invocations since the running entry point was called
  calls                 \* entry-point calls and cell updates made so far

\* get_lte_matom_populations (levels.c 174-216)
VARIABLES
  density,              \* xplasma->density[nion]
  ne, rho,              \* xplasma->ne, xplasma->rho
  matom_array,          \* levden_array of get_lte_matom_populations: the caller's array
  xdummy,               \* pdum: the scalars copy_plasma fills in
  dummy_levden,         \* where the never assigned pdum.levden refers to
  scratch,              \* memory that is neither the live cell nor the caller's array
  m_pc,                 \* position: idle, copied, saha, ion_loop, returned, fault
  nelem,                \* argument nelem
  m_nion,               \* loop index nion
  entry                 \* the live cell and the caller's array as they were at the call

\* superlevels (superlevel.c)
VARIABLES
  plasmamain,           \* per cell: t_e and the levden of the last cycle
  macromain,            \* per cell: superlevel_threshold, superlevel_norm, superlevel_lte_pops
  wcycle,               \* geo.wcycle
  setups,               \* calls of setup_superlevels made so far
  sl_op,                \* the superlevel operation that ran last
  sample,               \* arguments, draw and result of the last choose_superlevel_deactivation
  sl_errors             \* number of Error() messages of choose_superlevel_deactivation

\* concurrent calls of choose_superlevel_deactivation in the transport phase
VARIABLES
  threads               \* per thread: position, arguments, draw and the locals threshold, run_tot, n

\* wind_update (wind_updates2d.c)
VARIABLES
  rt_macro,             \* geo.rt_mode == RT_MODE_MACRO && geo.macro_simple == FALSE
  skipped,              \* per cell: partial cell that the update loop skips
  wu_pc,                \* per worker: idle, macro_loop, update_loop, communicate
  wu_n,                 \* per worker: loop index n
  wu_written            \* per worker: the plasmamain and macromain entries written so far

pf_vars == << t_e, t_r, w, partition, levden, macro_ioniz_mode, pc, op, mode, nion,
              t, weight, lv_mode, lv_t, lv_weight, xnion, temp, errors, levels_calls, calls >>

matom_vars == << density, ne, rho, matom_array, xdummy, dummy_levden, scratch, m_pc,
                 nelem, m_nion, entry >>

sl_vars == << plasmamain, macromain, wcycle, setups, sl_op, sample, sl_errors >>

tr_vars == << threads >>

wind_vars == << rt_macro, skipped, wu_pc, wu_n, wu_written >>

vars == << pf_vars, matom_vars, sl_vars, tr_vars, wind_vars >>

cell == << t_e, t_r, w >>

pf_locals == << mode, t, weight >>

lv_locals == << lv_mode, lv_t, lv_weight >>

pf2_args == << xnion, temp >>

\* ------------------------------------------------------------------------
\* partition_functions: selection of (t, weight), partition.c 122-160
\* ------------------------------------------------------------------------
\* variant: mode 6 is let through to the last branch
pf_known_with6(md) ==
  md \in { NEBULARMODE_TR, NEBULARMODE_TE, NEBULARMODE_ML93,
           NEBULARMODE_NLTE_SIM, NEBULARMODE_LTE_GROUND, NEBULARMODE_PAIRWISE_ML93 }

pf_known(md) ==
  md \in { NEBULARMODE_TR, NEBULARMODE_TE, NEBULARMODE_ML93,
           NEBULARMODE_NLTE_SIM, NEBULARMODE_LTE_GROUND }

pf_t(md) ==
  IF md = NEBULARMODE_TR THEN t_r
  ELSE IF md = NEBULARMODE_TE THEN t_e
  ELSE IF md = NEBULARMODE_ML93 THEN t_r
  ELSE IF md = NEBULARMODE_NLTE_SIM THEN t_e
  ELSE t_e

\* variant: the ground-state-only mode keeps the dilution factor
pf_weight_ground_w(md) ==
  IF md = NEBULARMODE_TR THEN SCALE
  ELSE IF md = NEBULARMODE_TE THEN SCALE
  ELSE IF md = NEBULARMODE_ML93 THEN w
  ELSE IF md = NEBULARMODE_NLTE_SIM THEN SCALE
  ELSE w

pf_weight(md) ==
  IF md = NEBULARMODE_TR THEN SCALE
  ELSE IF md = NEBULARMODE_TE THEN SCALE
  ELSE IF md = NEBULARMODE_ML93 THEN w
  ELSE IF md = NEBULARMODE_NLTE_SIM THEN SCALE
  ELSE 0

\* the for loop over the levels above ground, partition.c 177-181 and 192-196:
\* n counts 1 .. N-1, m walks the config table, z accumulates
\* variant: the energy of the ground level is not subtracted
RECURSIVE pf_sum_noground(_, _, _, _, _, _, _)
pf_sum_noground(n, N, m, m_ground, z, wgt, kt) ==
  IF n < N
  THEN pf_sum_noground(n + 1, N, m + 1, m_ground,
                       z + Mul(wgt * config[m + 1].g, exp(Div(0 - config[m + 1].ex, kt))),
                       wgt, kt)
  ELSE z

RECURSIVE pf_sum(_, _, _, _, _, _, _)
pf_sum(n, N, m, m_ground, z, wgt, kt) ==
  IF n < N
  THEN pf_sum(n + 1, N, m + 1, m_ground,
              z + Mul(wgt * config[m + 1].g,
                      exp(Div((0 - config[m + 1].ex) + config[m_ground].ex, kt))),
              wgt, kt)
  ELSE z

\* variant: the sum starts from 1 instead of the weight of the ground level
pf_z_unit_ground(k, wgt, kt) ==
  IF ion[k].nlevels > 0
  THEN pf_sum(1, ion[k].nlevels, ion[k].firstlevel, ion[k].firstlevel, SCALE, wgt, kt)
  ELSE IF ion[k].nlte > 0
  THEN pf_sum(1, ion[k].nlte, ion[k].first_nlte_level, ion[k].first_nlte_level,
              SCALE, wgt, kt)
  ELSE ion[k].g * SCALE

\* body of the loop over ions, partition.c 168-201: the value stored in partition[k]
pf_z(k, wgt, kt) ==
  IF ion[k].nlevels > 0
  THEN pf_sum(1, ion[k].nlevels, ion[k].firstlevel, ion[k].firstlevel,
              config[ion[k].firstlevel].g * SCALE, wgt, kt)
  ELSE IF ion[k].nlte > 0
  THEN pf_sum(1, ion[k].nlte, ion[k].first_nlte_level, ion[k].first_nlte_level,
              config[ion[k].first_nlte_level].g * SCALE, wgt, kt)
  ELSE ion[k].g * SCALE

\* ------------------------------------------------------------------------
\* partition_functions_2, partition.c 298-360
\* ------------------------------------------------------------------------
\* variant: the weight is left out of the sum (LTE assumed)
RECURSIVE pf2_sum_noweight(_, _, _, _, _, _, _)
pf2_sum_noweight(n, N, m, m_ground, z, wgt, kt) ==
  IF n < N
  THEN pf2_sum_noweight(n + 1, N, m + 1, m_ground,
                        z + Mul(SCALE * config[m + 1].g,
                                exp(Div((0 - config[m + 1].ex) + config[m_ground].ex, kt))),
                        wgt, kt)
  ELSE z

RECURSIVE pf2_sum(_, _, _, _, _, _, _)
pf2_sum(n, N, m, m_ground, z, wgt, kt) ==
  IF n < N
  THEN pf2_sum(n + 1, N, m + 1, m_ground,
               z + Mul(wgt * config[m + 1].g,
                       exp(Div((0 - config[m + 1].ex) + config[m_ground].ex, kt))),
               wgt, kt)
  ELSE z

pf2_z(k, wgt, kt) ==
  IF ion[k].nlevels > 0
  THEN pf2_sum(1, ion[k].nlevels, ion[k].firstlevel, ion[k].firstlevel,
               config[ion[k].firstlevel].g * SCALE, wgt, kt)
  ELSE IF ion[k].nlte > 0
  THEN pf2_sum(1, ion[k].nlte, ion[k].first_nlte_level, ion[k].first_nlte_level,
               config[ion[k].first_nlte_level].g * SCALE, wgt, kt)
  ELSE ion[k].g * SCALE

\* ------------------------------------------------------------------------
\* levels: selection of (t, weight), levels.c 73-102
\* ------------------------------------------------------------------------
levels_known(md) ==
  md \in { NEBULARMODE_TR, NEBULARMODE_TE, NEBULARMODE_ML93, 3, 4 }

\* variant: mode 3 reads the radiation temperature
levels_t_mode3_tr(md) ==
  IF md = NEBULARMODE_TR THEN t_r
  ELSE IF md = NEBULARMODE_TE THEN t_e
  ELSE IF md = NEBULARMODE_ML93 THEN t_r
  ELSE IF md = 3 THEN t_r
  ELSE t_e

levels_t(md) ==
  IF md = NEBULARMODE_TR THEN t_r
  ELSE IF md = NEBULARMODE_TE THEN t_e
  ELSE IF md = NEBULARMODE_ML93 THEN t_r
  ELSE IF md = 3 THEN t_e
  ELSE t_e

levels_weight(md) ==
  IF md = NEBULARMODE_TR THEN SCALE
  ELSE IF md = NEBULARMODE_TE THEN SCALE
  ELSE IF md = NEBULARMODE_ML93 THEN w
  ELSE IF md = 3 THEN SCALE
  ELSE 0

\* ------------------------------------------------------------------------
\* get_boltzmann_populations, levels.c 147-171: the array after the call
\* ------------------------------------------------------------------------
\* variant: the population of a higher level is not multiplied by the ground population
RECURSIVE gbp_loop_noground(_, _, _, _, _, _, _, _, _)
gbp_loop_noground(arr, k, n, m, m_ground, nlevden, ground, wgt, zkt) ==
  IF n < ion[k].nlte
  THEN gbp_loop_noground([arr EXCEPT ![nlevden + 1] =
                   Div(Mul(wgt * config[m + 1].g,
                           exp(Div((0 - config[m + 1].ex) + config[m_ground].ex, zkt[2]))),
                       zkt[1])],
                k, n + 1, m + 1, m_ground, nlevden + 1, ground, wgt, zkt)
  ELSE arr

RECURSIVE gbp_loop(_, _, _, _, _, _, _, _, _)
gbp_loop(arr, k, n, m, m_ground, nlevden, ground, wgt, zkt) ==
  IF n < ion[k].nlte
  THEN gbp_loop([arr EXCEPT ![nlevden + 1] =
                   Div(Mul(Mul(ground, wgt) * config[m + 1].g,
                           exp(Div((0 - config[m + 1].ex) + config[m_ground].ex, zkt[2]))),
                       zkt[1])],
                k, n + 1, m + 1, m_ground, nlevden + 1, ground, wgt, zkt)
  ELSE arr

\* variant: the populations are stored from index 0 of the array
get_boltzmann_populations_at0(levden_array, k, wgt, tt, z, nlevden) ==
  LET m == ion[k].first_nlte_level
      ground == Div(config[m].g * SCALE, z)
      kt == BOLTZMANN * tt
  IN  gbp_loop([levden_array EXCEPT ![0] = ground],
               k, 1, m, m, 0, ground, wgt, << z, kt >>)

get_boltzmann_populations(levden_array, k, wgt, tt, z, nlevden) ==
  LET m == ion[k].first_nlte_level
      ground == Div(config[m].g * SCALE, z)
      kt == BOLTZMANN * tt
  IN  gbp_loop([levden_array EXCEPT ![nlevden] = ground],
               k, 1, m, m, nlevden, ground, wgt, << z, kt >>)

\* ------------------------------------------------------------------------
\* Parts of the program a specification does not exercise stay as allocated
\* ------------------------------------------------------------------------
Cells == { 0, 1 }

NPLASMA == Cardinality(Cells)

Levels == 0 .. (Len(ConfigData) - 1)

ZeroLevden == [n \in 0 .. (NLTE_LEVELS - 1) |-> 0]

rho2nh == SCALE

matom_idle ==
  /\ density = [k \in 0 .. (nions - 1) |-> 0]
  /\ ne = SCALE
  /\ rho = SCALE
  /\ matom_array = ZeroLevden
  /\ xdummy = [ne |-> 0, rho |-> 0, t_r |-> 0, t_e |-> 0, w |-> 0]
  /\ dummy_levden = "scratch"
  /\ scratch = ZeroLevden
  /\ m_pc = "idle"
  /\ nelem = 0
  /\ m_nion = 0
  /\ entry = << >>

\* macromain as allocated: every table zero
ZeroMacro ==
  [superlevel_threshold |-> [k \in 0 .. (nions - 1) |-> 0],
   superlevel_norm |-> [k \in 0 .. (nions - 1) |-> 0],
   superlevel_lte_pops |-> [m \in Levels |-> 0]]

NoSample == [nplasma |-> 0, uplvl |-> 0, z |-> 0, n |-> 0, errors |-> 0, steps |-> 0]

sl_idle ==
  /\ plasmamain = [c \in Cells |-> [t_e |-> SCALE, levden |-> ZeroLevden]]
  /\ macromain = [c \in Cells |-> ZeroMacro]
  /\ wcycle = 0
  /\ setups = 0
  /\ sl_op = "none"
  /\ sample = NoSample
  /\ sl_errors = 0

Threads == { 1, 2 }

IdleThread == [pc |-> "idle", nplasma |-> 0, uplvl |-> 0, z |-> 0,
               threshold |-> 0, run_tot |-> 0, n |-> 0, result |-> 0]

tr_idle == threads = [th \in Threads |-> IdleThread]

Workers == { 0, 1 }

wind_idle ==
  /\ rt_macro = FALSE
  /\ skipped = [c \in Cells |-> FALSE]
  /\ wu_pc = [wk \in Workers |-> "idle"]
  /\ wu_n = [wk \in Workers |-> 0]
  /\ wu_written = [wk \in Workers |-> {}]

\* ------------------------------------------------------------------------
\* Initial state: the cell as allocated (arrays zeroed), temperatures set
\* ------------------------------------------------------------------------
Init ==
  /\ t_e \in Temps
  /\ t_r \in Temps
  /\ w \in Dilutions
  /\ partition = [k \in 0 .. (nions - 1) |-> 0]
  /\ levden = [n \in 0 .. (NLTE_LEVELS - 1) |-> 0]
  /\ macro_ioniz_mode \in { 0, 1 }
  /\ pc = "idle"
  /\ op = "none"
  /\ mode = 0
  /\ nion = 0
  /\ t = 0
  /\ weight = 0
  /\ lv_mode = 0
  /\ lv_t = 0
  /\ lv_weight = 0
  /\ xnion = 1
  /\ temp = 0
  /\ errors = 0
  /\ levels_calls = 0
  /\ calls = 0
  /\ matom_idle
  /\ sl_idle
  /\ tr_idle
  /\ wind_idle

\* every partition function of the cell has been computed at least once
partition_set == \A k \in 0 .. (nions - 1) : partition[k] > 0

\* the locals and arguments of a routine are dead once another entry point is called
no_pf == mode' = 0 /\ t' = 0

no_levels == lv_mode' = 0 /\ lv_t' = 0 /\ lv_weight' = 0

no_pf2 == xnion' = 1 /\ temp' = 0

\* ------------------------------------------------------------------------
\* partition_functions (xplasma, mode)
\* ------------------------------------------------------------------------
\* entry and selection of (t, weight), partition.c 122-155;
\* an unknown mode: Error and exit, partition.c 156-160
pf_call(md) ==
  /\ pc = "idle"
  /\ calls < MaxCalls
  /\ calls' = calls + 1
  /\ op' = "partition_functions"
  /\ mode' = md
  /\ levels_calls' = 0
  /\ no_levels
  /\ no_pf2
  /\ IF pf_known(md)
     THEN /\ t' = pf_t(md)
          /\ weight' = pf_weight(md)
          /\ nion' = 0
          /\ pc' = "pf_loop"
          /\ UNCHANGED errors
     ELSE /\ errors' = errors + 1
          /\ pc' = "exited"
          /\ t' = 0
          /\ weight' = 0
          /\ nion' = 0
  /\ UNCHANGED << cell, partition, levden, macro_ioniz_mode >>
  /\ UNCHANGED << matom_vars, sl_vars, tr_vars, wind_vars >>

\* variant: the populations of an ion are computed inside the loop, right after
\* its partition function
pf_ion_with_levden ==
  /\ pc = "pf_loop"
  /\ nion < nions
  /\ partition' = [partition EXCEPT ![nion] = pf_z(nion, weight, BOLTZMANN * t)]
  /\ levden' = IF ion[nion].nlte > 0
               THEN get_boltzmann_populations(levden, nion, weight, t, partition'[nion],
                                              ion[nion].first_levden)
               ELSE levden
  /\ nion' = nion + 1
  /\ UNCHANGED << cell, macro_ioniz_mode, pc, op, pf_locals, lv_locals,
                  pf2_args, errors, levels_calls, calls >>
  /\ UNCHANGED << matom_vars, sl_vars, tr_vars, wind_vars >>

\* one pass of the loop over ions, partition.c 165-206
pf_ion ==
  /\ pc = "pf_loop"
  /\ nion < nions
  /\ partition' = [partition EXCEPT ![nion] = pf_z(nion, weight, BOLTZMANN * t)]
  /\ nion' = nion + 1
  /\ UNCHANGED << cell, levden, macro_ioniz_mode, pc, op, pf_locals, lv_locals,
                  pf2_args, errors, levels_calls, calls >>
  /\ UNCHANGED << matom_vars, sl_vars, tr_vars, wind_vars >>

\* after the loop: levels (xplasma, mode), partition.c 208, entering levels.c 73-102
pf_levels ==
  /\ pc = "pf_loop"
  /\ nion = nions
  /\ lv_mode' = mode
  /\ levels_calls' = levels_calls + 1
  /\ nion' = 0
  /\ IF levels_known(mode)
     THEN /\ lv_t' = levels_t(mode)
          /\ lv_weight' = levels_weight(mode)
          /\ pc' = "levels_loop"
          /\ UNCHANGED errors
     ELSE /\ errors' = errors + 1
          /\ pc' = "exited"
          /\ UNCHANGED << lv_t, lv_weight >>
  /\ UNCHANGED << cell, partition, levden, macro_ioniz_mode, op, pf_locals, pf2_args, calls >>
  /\ UNCHANGED << matom_vars, sl_vars, tr_vars, wind_vars >>

\* ------------------------------------------------------------------------
\* levels (xplasma, mode)
\* ------------------------------------------------------------------------
\* a direct call, levels.c 73-102; callers have the partition functions computed
levels_call(md) ==
  /\ pc = "idle"
  /\ calls < MaxCalls
  /\ partition_set
  /\ calls' = calls + 1
  /\ op' = "levels"
  /\ lv_mode' = md
  /\ levels_calls' = 1
  /\ nion' = 0
  /\ no_pf
  /\ weight' = 0
  /\ no_pf2
  /\ IF levels_known(md)
     THEN /\ lv_t' = levels_t(md)
          /\ lv_weight' = levels_weight(md)
          /\ pc' = "levels_loop"
          /\ UNCHANGED errors
     ELSE /\ errors' = errors + 1
          /\ pc' = "exited"
          /\ lv_t' = 0
          /\ lv_weight' = 0
  /\ UNCHANGED << cell, partition, levden, macro_ioniz_mode >>
  /\ UNCHANGED << matom_vars, sl_vars, tr_vars, wind_vars >>

\* variant: macro atoms are written whatever the macro-ionization mode
levels_does_macro(k) ==
  /\ ion[k].nlte > 0
  /\ (ion[k].macro_info = 0 \/ macro_ioniz_mode = 0 \/ macro_ioniz_mode = 1)

\* levels writes the populations of this ion, levels.c 113-116
levels_does(k) ==
  /\ ion[k].nlte > 0
  /\ (ion[k].macro_info = 0 \/ macro_ioniz_mode = 0)

\* variant: z is read from the partition function of ion 0
levels_ion_z0 ==
  /\ pc = "levels_loop"
  /\ nion < nions
  /\ levden' = IF levels_does(nion)
               THEN get_boltzmann_populations(levden, nion, lv_weight, lv_t,
                                              partition[0], ion[nion].first_levden)
               ELSE levden
  /\ nion' = nion + 1
  /\ UNCHANGED << cell, partition, macro_ioniz_mode, pc, op, pf_locals, lv_locals,
                  pf2_args, errors, levels_calls, calls >>
  /\ UNCHANGED << matom_vars, sl_vars, tr_vars, wind_vars >>

\* one pass of the loop over ions, levels.c 111-129
levels_ion ==
  /\ pc = "levels_loop"
  /\ nion < nions
  /\ levden' = IF levels_does(nion)
               THEN get_boltzmann_populations(levden, nion, lv_weight, lv_t,
                                              partition[nion], ion[nion].first_levden)
               ELSE levden
  /\ nion' = nion + 1
  /\ UNCHANGED << cell, partition, macro_ioniz_mode, pc, op, pf_locals, lv_locals,
                  pf2_args, errors, levels_calls, calls >>
  /\ UNCHANGED << matom_vars, sl_vars, tr_vars, wind_vars >>

\* levels returns, levels.c 131, and with it partition_functions, partition.c 210
levels_return ==
  /\ pc = "levels_loop"
  /\ nion = nions
  /\ pc' = "idle"
  /\ UNCHANGED << cell, partition, levden, macro_ioniz_mode, op, pf_locals, nion,
                  lv_locals, pf2_args, errors, levels_calls, calls >>
  /\ UNCHANGED << matom_vars, sl_vars, tr_vars, wind_vars >>

\* ------------------------------------------------------------------------
\* partition_functions_2 (xplasma, xnion, temp, weight)
\* ------------------------------------------------------------------------
pf2_call(xn, tmp, wgt) ==
  /\ pc = "idle"
  /\ calls < MaxCalls
  /\ calls' = calls + 1
  /\ op' = "partition_functions_2"
  /\ xnion' = xn
  /\ temp' = tmp
  /\ weight' = wgt
  /\ nion' = xn - 1
  /\ levels_calls' = 0
  /\ pc' = "pf2_loop"
  /\ no_pf
  /\ no_levels
  /\ UNCHANGED << cell, partition, levden, macro_ioniz_mode, errors >>
  /\ UNCHANGED << matom_vars, sl_vars, tr_vars, wind_vars >>

\* variant: the loop runs one ion too far
pf2_ion_wide ==
  /\ pc = "pf2_loop"
  /\ nion < xnion + 1
  /\ partition' = IF nion = xnion /\ xnion + 1 < nions
                  THEN [partition EXCEPT
                          ![nion] = pf2_z(nion, weight, BOLTZMANN * temp),
                          ![nion + 1] = pf2_z(nion + 1, weight, BOLTZMANN * temp)]
                  ELSE [partition EXCEPT ![nion] = pf2_z(nion, weight, BOLTZMANN * temp)]
  /\ nion' = nion + 1
  /\ UNCHANGED << cell, levden, macro_ioniz_mode, pc, op, pf_locals, lv_locals,
                  pf2_args, errors, levels_calls, calls >>
  /\ UNCHANGED << matom_vars, sl_vars, tr_vars, wind_vars >>

\* one pass of the loop over the two ions, partition.c 316-357
pf2_ion ==
  /\ pc = "pf2_loop"
  /\ nion < xnion + 1
  /\ partition' = [partition EXCEPT ![nion] = pf2_z(nion, weight, BOLTZMANN * temp)]
  /\ nion' = nion + 1
  /\ UNCHANGED << cell, levden, macro_ioniz_mode, pc, op, pf_locals, lv_locals,
                  pf2_args, errors, levels_calls, calls >>
  /\ UNCHANGED << matom_vars, sl_vars, tr_vars, wind_vars >>

\* partition.c 359
pf2_return ==
  /\ pc = "pf2_loop"
  /\ nion = xnion + 1
  /\ pc' = "idle"
  /\ UNCHANGED << cell, partition, levden, macro_ioniz_mode, op, pf_locals, nion,
                  lv_locals, pf2_args, errors, levels_calls, calls >>
  /\ UNCHANGED << matom_vars, sl_vars, tr_vars, wind_vars >>

\* ------------------------------------------------------------------------
\* Between calls the outer loop gives the cell new temperatures and a new
\* dilution factor
\* ------------------------------------------------------------------------
cell_update(te, tr, ww) ==
  /\ pc = "idle"
  /\ calls < MaxCalls
  /\ << te, tr, ww >> # << t_e, t_r, w >>
  /\ calls' = calls + 1
  /\ t_e' = te
  /\ t_r' = tr
  /\ w' = ww
  /\ op' = "cell_update"
  /\ no_pf
  /\ weight' = 0
  /\ no_levels
  /\ no_pf2
  /\ nion' = 0
  /\ levels_calls' = 0
  /\ UNCHANGED << partition, levden, macro_ioniz_mode, pc, errors >>
  /\ UNCHANGED << matom_vars, sl_vars, tr_vars, wind_vars >>

Next ==
  \/ \E md \in Modes : pf_call(md)
  \/ pf_ion
  \/ pf_levels
  \/ \E md \in Modes : levels_call(md)
  \/ levels_ion
  \/ levels_return
  \/ \E xn \in 1 .. (nions - 1), tmp \in Temps, wgt \in Weights : pf2_call(xn, tmp, wgt)
  \/ pf2_ion
  \/ pf2_return
  \/ \E te \in Temps, tr \in Temps, ww \in Dilutions : cell_update(te, tr, ww)

Spec == Init /\ [][Next]_vars

\* ------------------------------------------------------------------------
\* Vocabulary of the properties
\* ------------------------------------------------------------------------
\* the table of the specification: mode -> (T, weight)
KnownModes == { NEBULARMODE_TR, NEBULARMODE_TE, NEBULARMODE_ML93,
                NEBULARMODE_NLTE_SIM, NEBULARMODE_LTE_GROUND }

TableT(md) ==
  CASE md = NEBULARMODE_TR -> t_r
    [] md = NEBULARMODE_TE -> t_e
    [] md = NEBULARMODE_ML93 -> t_r
    [] md = NEBULARMODE_NLTE_SIM -> t_e
    [] md = NEBULARMODE_LTE_GROUND -> t_e

TableWeight(md) ==
  CASE md = NEBULARMODE_TR -> SCALE
    [] md = NEBULARMODE_TE -> SCALE
    [] md = NEBULARMODE_ML93 -> w
    [] md = NEBULARMODE_NLTE_SIM -> SCALE
    [] md = NEBULARMODE_LTE_GROUND -> 0

RECURSIVE SumOver(_, _)
SumOver(S, f) ==
  IF S = {} THEN 0
  ELSE LET n == CHOOSE x \in S : TRUE IN f[n] + SumOver(S \ { n }, f)

Ions == 0 .. (nions - 1)

\* Boltzmann factor exp(-(ex_n - ex_0)/(k T)) of level n above the ground level m0
Boltz(m0, n, T) == exp(Div(0 - (config[m0 + n].ex - config[m0].ex), BOLTZMANN * T))

\* the ladder the partition function of ion k is summed over: first level and length
LadderFirst(k) == IF ion[k].nlevels > 0 THEN ion[k].firstlevel ELSE ion[k].first_nlte_level

LadderN(k) == IF ion[k].nlevels > 0 THEN ion[k].nlevels ELSE ion[k].nlte

\* Z = g_0 + sum over n = 1 .. N-1 of weight * g_n * exp(-(ex_n - ex_0)/(k T))
ZFormula(k, T, wgt) ==
  IF LadderN(k) = 0 THEN ion[k].g * SCALE
  ELSE LET m0 == LadderFirst(k)
           term == [n \in 1 .. (LadderN(k) - 1) |->
                      Mul(wgt * config[m0 + n].g, Boltz(m0, n, T))]
       IN  config[m0].g * SCALE + SumOver(1 .. (LadderN(k) - 1), term)

pf_returned == pc = "idle" /\ op = "partition_functions"

\* ------------------------------------------------------------------------
\* C1: in each of the five known modes partition_functions and levels pick
\* the same (T, weight), the pair of the table: LTE-radiation (t_r, 1),
\* LTE-electron (t_e, 1), dilute-radiation (t_r, w), reduced non-LTE (t_e, 1),
\* ground-state-only (t_e, 0).
\* ------------------------------------------------------------------------
C1_SameSelection ==
  /\ (op = "partition_functions" /\ pc \in { "pf_loop", "levels_loop" })
       => (mode \in KnownModes /\ t = TableT(mode) /\ weight = TableWeight(mode))
  /\ pc = "levels_loop"
       => (lv_mode \in KnownModes /\ lv_t = TableT(lv_mode)
           /\ lv_weight = TableWeight(lv_mode))
  /\ (op = "partition_functions" /\ pc = "levels_loop")
       => (lv_t = t /\ lv_weight = weight)

C1_Witness ==
  /\ op = "partition_functions"
  /\ pc = "levels_loop"
  /\ mode = NEBULARMODE_ML93
  /\ t_r # t_e
  /\ lv_t = t_r
  /\ lv_weight = w
  /\ w # SCALE

\* ------------------------------------------------------------------------
\* C2: after partition_functions(cell, mode) every partition[ion] is
\* g_0 + sum_{n=1..N-1} weight * g_n * exp(-(ex_n - ex_0)/(kT)) over the
\* detailed ladder if nlevels > 0, else over the reduced ladder if nlte > 0,
\* and ion.g when the ion has neither.
\* ------------------------------------------------------------------------
C2_PartitionFormula ==
  pf_returned =>
    \A k \in Ions : partition[k] = ZFormula(k, TableT(mode), TableWeight(mode))

C2_Witness ==
  /\ pf_returned
  /\ mode = NEBULARMODE_ML93
  /\ t_r = 2 * SCALE
  /\ partition[0] = ZFormula(0, t_r, w)
  /\ partition[0] > config[0].g * SCALE
  /\ partition[1] = ZFormula(1, t_r, w)
  /\ partition[3] = ion[3].g * SCALE

\* ------------------------------------------------------------------------
\* C3: a call of partition_functions or of levels with a mode outside the
\* five known ones (6, 7, 8, 9 included) logs an error and ends the process;
\* no entry of partition or levden is written on the way, and nothing runs
\* after the exit.
\* ------------------------------------------------------------------------
calling_pf == pc = "idle" /\ pc' # "idle" /\ op' = "partition_functions"

calling_levels == pc = "idle" /\ pc' # "idle" /\ op' = "levels"

C3_UnknownModeFatal ==
  [][ /\ (calling_pf /\ mode' \notin KnownModes)
        => (pc' = "exited" /\ errors' = errors + 1
            /\ partition' = partition /\ levden' = levden)
      /\ (calling_levels /\ lv_mode' \notin KnownModes)
        => (pc' = "exited" /\ errors' = errors + 1
            /\ partition' = partition /\ levden' = levden)
      /\ pc # "exited" ]_vars

C3_Witness ==
  /\ pc = "exited"
  /\ op = "levels"
  /\ lv_mode = NEBULARMODE_MATRIX_BB
  /\ errors = 1
  /\ partition_set
  /\ levden[0] > 0

\* ------------------------------------------------------------------------
\* C4: within one partition_functions(cell, mode) call levels is invoked
\* exactly once, with the same mode, and only after partition[ion] has been
\* written for every ion; no levden entry is written before the last
\* partition entry.
\* ------------------------------------------------------------------------
in_pf == op = "partition_functions" /\ pc \in { "pf_loop", "levels_loop" }

C4_LevelsOnceAfterPartition ==
  [][ /\ (in_pf /\ levels_calls' # levels_calls)
        => (/\ pc = "pf_loop"
            /\ nion = nions
            /\ levels_calls = 0
            /\ levels_calls' = 1
            /\ lv_mode' = mode
            /\ \A k \in Ions : partition[k] = pf_z(k, weight, BOLTZMANN * t))
      /\ (in_pf /\ pc = "pf_loop") => levden' = levden
      /\ (in_pf /\ pc = "levels_loop") => partition' = partition
      /\ (in_pf /\ pc' = "idle") => (levels_calls = 1 /\ lv_mode = mode) ]_vars

C4_Witness ==
  /\ pf_returned
  /\ levels_calls = 1
  /\ lv_mode = mode
  /\ mode = NEBULARMODE_TE
  /\ levden[0] > 0
  /\ levden[1] > 0

\* ------------------------------------------------------------------------
\* C5: the ground population stored for an ion agrees with the partition
\* function stored for it, levden[first_levden] = g_0 / partition[ion], for
\* every ion with nlte > 0 that levels does not skip.
\* ------------------------------------------------------------------------
GroundConsistent(k) ==
  levden[ion[k].first_levden] = Div(config[ion[k].first_nlte_level].g * SCALE, partition[k])

\* as claimed: in every state between calls, whatever the calls made so far
\* (for the ions whose populations have been computed at least once)
C5_ConsistentAfterAnyCall ==
  (pc = "idle" /\ op \in { "partition_functions", "levels", "partition_functions_2" })
    => \A k \in Ions :
         (levels_does(k) /\ partition[k] > 0 /\ levden[ion[k].first_levden] > 0)
           => GroundConsistent(k)

\* as amended: in every state in which the call made last on the cell is
\* partition_functions or levels
C5_ConsistentAfterLevels ==
  (pc = "idle" /\ op \in { "partition_functions", "levels" })
    => \A k \in Ions : levels_does(k) => GroundConsistent(k)

C5_Witness ==
  /\ pc = "idle"
  /\ op = "levels"
  /\ calls = 3
  /\ macro_ioniz_mode = 0
  /\ partition[1] = pf2_z(1, 0, BOLTZMANN * t_e)
  /\ partition[0] # pf2_z(0, 0, BOLTZMANN * t_e)
  /\ GroundConsistent(0)
  /\ GroundConsistent(1)
  /\ levden[ion[1].first_levden] = SCALE

\* ------------------------------------------------------------------------
\* C6: get_boltzmann_populations writes ground = g_0 / Z at the ion's first
\* reduced level and, for every higher reduced level n,
\* ground * w * g_n * exp(-(ex_n - ex_0)/(kT)) / Z, Z being the value passed in.
\* ------------------------------------------------------------------------
C6_BoltzmannLadder ==
  [][ (pc = "levels_loop" /\ nion < nions /\ levels_does(nion))
        => LET z == partition[nion]
               m0 == ion[nion].first_nlte_level
               d0 == ion[nion].first_levden
               ground == Div(config[m0].g * SCALE, z)
           IN  /\ levden'[d0] = ground
               /\ \A n \in 1 .. (ion[nion].nlte - 1) :
                    levden'[d0 + n] =
                      Div(Mul(Mul(ground, lv_weight) * config[m0 + n].g,
                              Boltz(m0, n, lv_t)), z) ]_vars

C6_Witness ==
  /\ pc = "levels_loop"
  /\ nion = 1
  /\ lv_mode = NEBULARMODE_ML93
  /\ lv_weight = SCALE \div 2
  /\ levden[0] = Div(config[0].g * SCALE, partition[0])
  /\ levden[1] > 0
  /\ levden[2] > 0
  /\ levden[2] < levden[1]

\* ------------------------------------------------------------------------
\* C7: in a weight = 1 mode, for an ion whose partition function and level
\* populations cover the same levels, every levden is
\* g_n * exp(-(ex_n - ex_0)/(kT)) / Z, so the entries of the ion sum to 1;
\* for g = [1,3,5], ex = [0,1,2], kT = 1: Z = 2.7803 and
\* levden = [0.3598, 0.3970, 0.2434].  (Compared within 0.002.)
\* ------------------------------------------------------------------------
Close(a, b) == Abs(a - b) <= 20

SameLadder(k) ==
  \/ ion[k].nlevels = 0
  \/ (ion[k].nlevels = ion[k].nlte /\ ion[k].firstlevel = ion[k].first_nlte_level)

LevdenOf(k) == [n \in 0 .. (ion[k].nlte - 1) |-> levden[ion[k].first_levden + n]]

C7_LevdenNormalised ==
  /\ (pf_returned /\ weight = SCALE)
       => \A k \in Ions : (levels_does(k) /\ SameLadder(k))
            => /\ \A n \in 0 .. (ion[k].nlte - 1) :
                    Close(levden[ion[k].first_levden + n],
                          Div(Mul(config[ion[k].first_nlte_level + n].g * SCALE,
                                  Boltz(ion[k].first_nlte_level, n, t)),
                              partition[k]))
               /\ Close(SumOver(0 .. (ion[k].nlte - 1), LevdenOf(k)), SCALE)
  /\ (pf_returned /\ mode = NEBULARMODE_TR /\ t_r = SCALE)
       => /\ Close(partition[0], 27803)
          /\ Close(levden[0], 3598)
          /\ Close(levden[1], 3970)
          /\ Close(levden[2], 2434)

\* ------------------------------------------------------------------------
\* C8: after partition_functions(cell, ground-state-only mode), at any
\* temperature, levden[ground] = 1 and levden[n] = 0 above ground.
\* ------------------------------------------------------------------------
GroundOnly(k) ==
  /\ levden[ion[k].first_levden] = SCALE
  /\ \A n \in 1 .. (ion[k].nlte - 1) : levden[ion[k].first_levden + n] = 0

\* as claimed: for every ion (with reduced levels)
C8_GroundOnlyEveryIon ==
  (pf_returned /\ mode = NEBULARMODE_LTE_GROUND)
    => \A k \in Ions : ion[k].nlte > 0 => GroundOnly(k)

\* as amended: for every ion whose populations levels writes
C8_GroundOnlyWrittenIons ==
  (pf_returned /\ mode = NEBULARMODE_LTE_GROUND)
    => \A k \in Ions : levels_does(k) => GroundOnly(k)

C8_Witness ==
  /\ pf_returned
  /\ mode = NEBULARMODE_LTE_GROUND
  /\ calls = 2
  /\ macro_ioniz_mode = 0
  /\ GroundOnly(0)
  /\ GroundOnly(1)
  /\ t_e = 2 * SCALE

\* ------------------------------------------------------------------------
\* C9: for a single-level ion (one level in its ladder, or no levels at all)
\* partition_functions gives Z = g and levden[ground] = 1 whatever the
\* temperature and the weight of the mode.
\* ------------------------------------------------------------------------
SingleLevel(k) == LadderN(k) <= 1

\* as claimed: for every single-level ion
C9_SingleLevelEveryIon ==
  pf_returned
    => \A k \in Ions : SingleLevel(k)
         => /\ partition[k] = ion[k].g * SCALE
            /\ ion[k].nlte > 0 => levden[ion[k].first_levden] = SCALE

\* as amended: levden[ground] = 1 for the single-level ions levels writes
C9_SingleLevelWrittenIons ==
  pf_returned
    => \A k \in Ions : SingleLevel(k)
         => /\ partition[k] = ion[k].g * SCALE
            /\ levels_does(k) => levden[ion[k].first_levden] = SCALE

C9_Witness ==
  /\ pf_returned
  /\ mode = NEBULARMODE_ML93
  /\ macro_ioniz_mode = 0
  /\ SingleLevel(2)
  /\ partition[2] = ion[2].g * SCALE
  /\ levden[ion[2].first_levden] = SCALE
  /\ partition[3] = ion[3].g * SCALE

\* ------------------------------------------------------------------------
\* C10: partition_functions_2(cell, k, T, weight), k >= 1, stores in
\* partition[k-1] and partition[k] the values partition_functions stores for
\* these two ions in a mode that selects the same (T, weight).
\* ------------------------------------------------------------------------
pf2_returned == pc = "idle" /\ op = "partition_functions_2"

C10_PairMatchesFull ==
  pf2_returned
    => \A md \in KnownModes :
         (pf_t(md) = temp /\ pf_weight(md) = weight)
           => \A k \in { xnion - 1, xnion } :
                partition[k] = pf_z(k, pf_weight(md), BOLTZMANN * pf_t(md))

C10_Witness ==
  /\ pf2_returned
  /\ xnion = 1
  /\ temp = t_r
  /\ t_r # t_e
  /\ weight = w
  /\ w # SCALE
  /\ partition[0] = pf_z(0, pf_weight(NEBULARMODE_ML93), BOLTZMANN * pf_t(NEBULARMODE_ML93))
  /\ partition[1] = pf_z(1, pf_weight(NEBULARMODE_ML93), BOLTZMANN * pf_t(NEBULARMODE_ML93))
  /\ partition[0] # config[0].g * SCALE

\* ------------------------------------------------------------------------
\* C11: partition_functions_2(cell, k, T, weight) changes partition[k-1] and
\* partition[k] only: every other partition entry, the whole levden array and
\* the cell's t_e, t_r and w stay as they are.
\* ------------------------------------------------------------------------
in_pf2 == op' = "partition_functions_2" /\ (pc = "pf2_loop" \/ pc' = "pf2_loop")

C11_PairFrame ==
  [][ in_pf2
        => /\ levden' = levden
           /\ << t_e', t_r', w' >> = << t_e, t_r, w >>
           /\ \A k \in Ions : k \notin { xnion' - 1, xnion' } => partition'[k] = partition[k] ]_vars

C11_Witness ==
  /\ pf2_returned
  /\ calls = 2
  /\ xnion = 2
  /\ weight = 0
  /\ partition[1] = config[ion[1].first_nlte_level].g * SCALE
  /\ partition[0] > config[0].g * SCALE
  /\ partition[4] > config[ion[4].firstlevel].g * SCALE
  /\ levden[0] > 0
  /\ levden[1] > 0

\* ------------------------------------------------------------------------
\* C12: levels leaves every levden entry of a macro-atom ion unchanged while
\* the macro-ionization mode is on (non-zero); it writes the entries of these
\* ions only when the mode is off.
\* ------------------------------------------------------------------------
MacroEntries == { d \in 0 .. (NLTE_LEVELS - 1) :
                    \E k \in Ions : /\ ion[k].macro_info # 0
                                    /\ d >= ion[k].first_levden
                                    /\ d < ion[k].first_levden + ion[k].nlte }

C12_MacroAtomsSkipped ==
  [][ pc = "levels_loop"
        => /\ macro_ioniz_mode # 0 => \A d \in MacroEntries : levden'[d] = levden[d]
           /\ (\E d \in MacroEntries : levden'[d] # levden[d]) => macro_ioniz_mode = 0 ]_vars

C12_Witness ==
  /\ pc = "idle"
  /\ op = "levels"
  /\ macro_ioniz_mode # 0
  /\ levden[0] > 0
  /\ levden[1] > 0
  /\ \A d \in MacroEntries : levden[d] = 0
  /\ partition[1] > 0

\* ========================================================================
\* get_lte_matom_populations (levden_array, nelem, xplasma), levels.c 174-216
\* ========================================================================
\* the loop over ions of levels, levels.c 111-129, run to its end on an array
RECURSIVE levels_loop(_, _, _, _, _)
levels_loop(arr, k, wgt, tt, part) ==
  IF k < nions
  THEN levels_loop(IF levels_does(k)
                   THEN get_boltzmann_populations(arr, k, wgt, tt, part[k],
                                                  ion[k].first_levden)
                   ELSE arr,
                   k + 1, wgt, tt, part)
  ELSE arr

\* the densities saha may store: for each element a split of nh * abun over its ions
SahaOutcomes ==
  { [k \in Ions |-> IF k = 0 THEN f ELSE IF k = 1 THEN SCALE - f ELSE SCALE] :
      f \in { SCALE \div 4, SCALE \div 2 } }

\* arrays a caller may hand in: freshly zeroed, or still holding earlier values
ArrayOnEntry == { ZeroLevden, [n \in 0 .. (NLTE_LEVELS - 1) |-> SCALE \div 2] }

\* pdum is an automatic variable and copy_plasma never assigns pdum.levden:
\* the places its value may refer to
DummyLevdenTargets == { "scratch", "live", "arg", "fault" }

\* the live cell as a caller holds it: partition_functions has run in a known mode
InitMatom ==
  /\ t_e \in Temps
  /\ t_r \in Temps
  /\ w \in Dilutions
  /\ macro_ioniz_mode \in { 0, 1 }
  /\ mode \in { NEBULARMODE_TR, NEBULARMODE_TE, NEBULARMODE_ML93,
                NEBULARMODE_NLTE_SIM, NEBULARMODE_LTE_GROUND }
  /\ partition = [k \in 0 .. (nions - 1) |-> pf_z(k, pf_weight(mode), BOLTZMANN * pf_t(mode))]
  /\ levden = levels_loop(ZeroLevden, 0, levels_weight(mode), levels_t(mode), partition)
  /\ pc = "idle"
  /\ op = "partition_functions"
  /\ nion = nions
  /\ t = pf_t(mode)
  /\ weight = pf_weight(mode)
  /\ lv_mode = mode
  /\ lv_t = levels_t(mode)
  /\ lv_weight = levels_weight(mode)
  /\ xnion = 1
  /\ temp = 0
  /\ errors = 0
  /\ levels_calls = 1
  /\ calls = 1
  /\ density \in SahaOutcomes
  /\ ne = SCALE
  /\ rho = SCALE
  /\ matom_array \in ArrayOnEntry
  /\ xdummy = [ne |-> 0, rho |-> 0, t_r |-> 0, t_e |-> 0, w |-> 0]
  /\ dummy_levden \in DummyLevdenTargets
  /\ scratch = ZeroLevden
  /\ m_pc = "idle"
  /\ nelem = 0
  /\ m_nion = 0
  /\ entry = << >>
  /\ sl_idle
  /\ tr_idle
  /\ wind_idle

matom_frame == UNCHANGED << t_e, t_r, w, macro_ioniz_mode, pc, op, mode, nion, t, weight,
                            lv_mode, lv_t, lv_weight, xnion, temp, errors, levels_calls,
                            calls, ne, rho, dummy_levden, sl_vars, tr_vars, wind_vars >>

\* entry and copy_plasma, levels.c 184-189 and 241-262: the scalars are copied,
\* partition and density are shared with the live cell, levden is not assigned
copy_plasma(e) ==
  /\ m_pc = "idle"
  /\ nelem' = e
  /\ entry' = [partition |-> partition, density |-> density, levden |-> levden,
               t_e |-> t_e, t_r |-> t_r, w |-> w, ne |-> ne, array |-> matom_array]
  /\ xdummy' = [ne |-> ne, rho |-> rho, t_r |-> t_r, t_e |-> t_e, w |-> w]
  /\ m_pc' = "copied"
  /\ UNCHANGED << partition, levden, density, matom_array, scratch, m_nion >>
  /\ matom_frame

\* partition_functions (xdummy_lte, NEBULARMODE_TR), levels.c 193: the loop of
\* partition.c 165-206 stores through xdummy_lte->partition, then levels stores
\* through xdummy_lte->levden
matom_partition ==
  /\ m_pc = "copied"
  /\ LET part == [k \in 0 .. (nions - 1) |-> pf_z(k, SCALE, BOLTZMANN * xdummy.t_r)]
         lv(arr) == levels_loop(arr, 0, SCALE, xdummy.t_r, part)
     IN  /\ partition' = part
         /\ levden' = IF dummy_levden = "live" THEN lv(levden) ELSE levden
         /\ matom_array' = IF dummy_levden = "arg" THEN lv(matom_array) ELSE matom_array
         /\ scratch' = IF dummy_levden = "scratch" THEN lv(scratch) ELSE scratch
  /\ m_pc' = IF dummy_levden = "fault" THEN "fault" ELSE "saha"
  /\ UNCHANGED << density, xdummy, nelem, m_nion, entry >>
  /\ matom_frame

\* saha (xdummy_lte, ne, t_r), levels.c 194: stores through xdummy_lte->density
matom_saha ==
  /\ m_pc = "saha"
  /\ density' \in SahaOutcomes
  /\ m_nion' = ele[nelem].firstion
  /\ m_pc' = "ion_loop"
  /\ UNCHANGED << partition, levden, matom_array, scratch, xdummy, nelem, entry >>
  /\ matom_frame

\* one pass of the loop over the ions of the element, levels.c 196-213
matom_ion ==
  /\ m_pc = "ion_loop"
  /\ m_nion < ele[nelem].firstion + ele[nelem].nions
  /\ LET nlevden_first == ion[m_nion].first_levden
         nh == Mul(rho, rho2nh)
         ion_fraction == Div(density[m_nion], Mul(nh, ele[nelem].abun))
         z == partition[m_nion]
         boltz(arr) == get_boltzmann_populations(arr, m_nion, SCALE, xdummy.t_r, z,
                                                 nlevden_first)
         scaled(arr) == [n \in 0 .. (NLTE_LEVELS - 1) |->
                           IF n >= nlevden_first /\ n < nlevden_first + ion[m_nion].nlte
                           THEN Mul(arr[n], ion_fraction)
                           ELSE arr[n]]
     IN  /\ levden' = IF dummy_levden = "live" THEN boltz(levden) ELSE levden
         /\ scratch' = IF dummy_levden = "scratch" THEN boltz(scratch) ELSE scratch
         /\ matom_array' = scaled(IF dummy_levden = "arg" THEN boltz(matom_array)
                                  ELSE matom_array)
  /\ m_nion' = m_nion + 1
  /\ UNCHANGED << partition, density, xdummy, m_pc, nelem, entry >>
  /\ matom_frame

\* return (0), levels.c 215
matom_return ==
  /\ m_pc = "ion_loop"
  /\ m_nion >= ele[nelem].firstion + ele[nelem].nions
  /\ m_pc' = "returned"
  /\ UNCHANGED << partition, levden, density, matom_array, scratch, xdummy, nelem,
                  m_nion, entry >>
  /\ matom_frame

NextMatom ==
  \/ \E e \in 0 .. (Len(EleData) - 1) : copy_plasma(e)
  \/ matom_partition
  \/ matom_saha
  \/ matom_ion
  \/ matom_return

SpecMatom == InitMatom /\ [][NextMatom]_vars

\* ------------------------------------------------------------------------
\* C13: get_lte_matom_populations(levden_array, element, cell) leaves the
\* caller's live cell as it was at the call: partition, density, levden, t_e,
\* t_r, w and ne are unchanged when it returns.
\* ------------------------------------------------------------------------
C13_LiveCellUntouched ==
  m_pc = "returned"
    => /\ partition = entry.partition
       /\ density = entry.density
       /\ levden = entry.levden
       /\ << t_e, t_r, w, ne >> = << entry.t_e, entry.t_r, entry.w, entry.ne >>

\* ------------------------------------------------------------------------
\* C14: the array get_lte_matom_populations returns holds, for every reduced
\* level of every ion of the element, the weight-1 Boltzmann population at t_r
\* times the ion's LTE ionization fraction, whatever the array held on entry;
\* the entries of the element sum to 1.
\* ------------------------------------------------------------------------
ElementIons(e) == ele[e].firstion .. (ele[e].firstion + ele[e].nions - 1)

LteLadder(k) == get_boltzmann_populations(ZeroLevden, k, SCALE, t_r,
                                          pf_z(k, SCALE, BOLTZMANN * t_r),
                                          ion[k].first_levden)

LteFraction(k) == Div(density[k], Mul(Mul(rho, rho2nh), ele[nelem].abun))

ElementEntries(e) == { d \in 0 .. (NLTE_LEVELS - 1) :
                         \E k \in ElementIons(e) : /\ d >= ion[k].first_levden
                                                   /\ d < ion[k].first_levden + ion[k].nlte }

C14_ReturnedArray ==
  m_pc = "returned"
    => /\ \A k \in ElementIons(nelem) :
            \A d \in ion[k].first_levden .. (ion[k].first_levden + ion[k].nlte - 1) :
               Close(matom_array[d], Mul(LteLadder(k)[d], LteFraction(k)))
       /\ Close(SumOver(ElementEntries(nelem), matom_array), SCALE)

\* ========================================================================
\* superlevel.c
\* ========================================================================
LTE_DEP_FRAC == 2

LOWEST_SUPERLEVEL_THRESHOLD == 1

\* variant: the ratio of the statistical weights is left out
lte_pop_noratio(n, ground, kt) ==
  IF n = ground THEN SCALE
  ELSE exp(Div((0 - config[n].ex) + config[ground].ex, kt))

\* the LTE population of level n relative to the ground state, superlevel.c 127-133
lte_pop(n, ground, kt) ==
  IF n = ground THEN SCALE
  ELSE Mul((config[n].g * SCALE) \div config[ground].g,
           exp(Div((0 - config[n].ex) + config[ground].ex, kt)))

\* variant: the band is closed, a coefficient of exactly 1/2 or 2 is inside
in_band_closed(pops, den, ground_den) ==
  /\ ground_den > 0
  /\ den > 0
  /\ Div(den, ground_den) > 0
  /\ Div(pops, Div(den, ground_den)) <= LTE_DEP_FRAC * SCALE
  /\ Div(pops, Div(den, ground_den)) >= SCALE \div LTE_DEP_FRAC

\* dep_coef < LTE_DEP_FRAC && dep_coef > 1./LTE_DEP_FRAC, superlevel.c 203-204 and
\* 207-213, for dep_coef = pops / (den / ground_den); a zero den or ground_den
\* makes dep_coef infinite, zero or not a number, and both comparisons cannot hold
in_band(pops, den, ground_den) ==
  /\ ground_den > 0
  /\ den > 0
  /\ Div(den, ground_den) > 0
  /\ Div(pops, Div(den, ground_den)) < LTE_DEP_FRAC * SCALE
  /\ Div(pops, Div(den, ground_den)) > SCALE \div LTE_DEP_FRAC

\* variant: the floor test lets the walk pass the ground level
RECURSIVE threshold_walk_nofloor(_, _, _, _, _)
threshold_walk_nofloor(xp, pops, k, threshold, n) ==
  LET ground == ion[k].first_nlte_level
      lastden == ion[k].first_levden + ion[k].nlte - 1
      ground_den == xp.levden[ion[k].first_levden]
  IN  IF /\ in_band(pops[threshold], xp.levden[lastden - n], ground_den)
         /\ (threshold - ground) > LOWEST_SUPERLEVEL_THRESHOLD - 2
      THEN threshold_walk_nofloor(xp, pops, k, threshold - 1, n + 1)
      ELSE threshold

\* the while loop of get_superlevel_threshold, superlevel.c 207-213
RECURSIVE threshold_walk(_, _, _, _, _)
threshold_walk(xp, pops, k, threshold, n) ==
  LET ground == ion[k].first_nlte_level
      lastden == ion[k].first_levden + ion[k].nlte - 1
      ground_den == xp.levden[ion[k].first_levden]
  IN  IF /\ in_band(pops[threshold], xp.levden[lastden - n], ground_den)
         /\ (threshold - ground) > LOWEST_SUPERLEVEL_THRESHOLD
      THEN threshold_walk(xp, pops, k, threshold - 1, n + 1)
      ELSE threshold

\* variant: the walk is made on the first cycle too
get_superlevel_threshold_walks(xp, pops, k, cycle) ==
  LET ground == ion[k].first_nlte_level
      threshold == ion[k].nlte + ground - 1
  IN  threshold_walk(xp, pops, k, threshold, 0) + 1

\* get_superlevel_threshold (xplasma, nion), superlevel.c 181-222; pops is
\* macromain[xplasma->nplasma].superlevel_lte_pops, cycle is geo.wcycle
get_superlevel_threshold(xp, pops, k, cycle) ==
  LET ground == ion[k].first_nlte_level
      threshold == ion[k].nlte + ground - 1
  IN  IF cycle = 0
      THEN threshold
      ELSE threshold_walk(xp, pops, k, threshold, 0) + 1

\* the loop of superlevel.c 140-143, added to the norm already stored
RECURSIVE norm_loop(_, _, _, _)
norm_loop(pops, n, top, norm) ==
  IF n <= top
  THEN norm_loop(pops, n + 1, top, norm + (pops[n] \div config[n].g))
  ELSE norm

\* body of the loop over cells for ion k, superlevel.c 114-144
setup_cell(xp, mp, k, cycle) ==
  LET ground == ion[k].first_nlte_level
      kt == BOLTZMANN * xp.t_e
      pops == [m \in Levels |->
                 IF m >= ground /\ m < ground + ion[k].nlte
                 THEN lte_pop(m, ground, kt)
                 ELSE mp.superlevel_lte_pops[m]]
      threshold == get_superlevel_threshold(xp, pops, k, cycle)
  IN  [superlevel_lte_pops |-> pops,
       superlevel_threshold |-> [mp.superlevel_threshold EXCEPT ![k] = threshold],
       superlevel_norm |-> [mp.superlevel_norm EXCEPT
                              ![k] = norm_loop(pops, threshold, ground + ion[k].nlte - 1,
                                               mp.superlevel_norm[k])]]

\* the loop over ions, superlevel.c 110-147, for one cell
RECURSIVE setup_ions(_, _, _, _)
setup_ions(xp, mp, k, cycle) ==
  IF k < nions
  THEN setup_ions(xp, IF ion[k].has_superlevel = 1 THEN setup_cell(xp, mp, k, cycle) ELSE mp,
                  k + 1, cycle)
  ELSE mp

\* variant: the running sum adds the population without dividing by g
RECURSIVE choose_walk_nog(_, _, _, _, _)
choose_walk_nog(mp, k, threshold, run_tot, n) ==
  IF run_tot < threshold /\ n < ion[k].first_nlte_level + ion[k].nlte
  THEN choose_walk_nog(mp, k, threshold, run_tot + mp.superlevel_lte_pops[n], n + 1)
  ELSE n

\* the while loop of choose_superlevel_deactivation, superlevel.c 52-57: the value of n
RECURSIVE choose_walk(_, _, _, _, _)
choose_walk(mp, k, threshold, run_tot, n) ==
  IF run_tot < threshold /\ n < ion[k].first_nlte_level + ion[k].nlte
  THEN choose_walk(mp, k, threshold,
                   run_tot + (mp.superlevel_lte_pops[n] \div config[n].g), n + 1)
  ELSE n

\* variant: the step back after the walk is left out
choose_n_nostepback(mp, uplvl, z) ==
  LET k == config[uplvl].nion
      threshold == Mul(z, mp.superlevel_norm[k])
  IN  choose_walk(mp, k, threshold, 0, mp.superlevel_threshold[k])

\* the level choose_superlevel_deactivation returns for the draw z, superlevel.c 43-76
choose_n(mp, uplvl, z) ==
  LET k == config[uplvl].nion
      threshold == Mul(z, mp.superlevel_norm[k])
      n == choose_walk(mp, k, threshold, 0, mp.superlevel_threshold[k])
  IN  IF n > mp.superlevel_threshold[k] THEN n - 1 ELSE n

\* the number of Error() calls of superlevel.c 66-73 for the returned n
choose_errors(mp, uplvl, n) ==
  LET k == config[uplvl].nion
      ground == ion[k].first_nlte_level
  IN  (IF n = ground + ion[k].nlte + 1 THEN 1 ELSE 0)
      + (IF n < mp.superlevel_threshold[k] THEN 1 ELSE 0)

\* variant: the walk is bounded by the size of the level array, not by the ion's ladder
RECURSIVE choose_count_wide(_, _, _, _, _, _)
choose_count_wide(mp, k, threshold, run_tot, n, steps) ==
  IF run_tot < threshold /\ n < NLTE_LEVELS
  THEN choose_count_wide(mp, k, threshold,
                         run_tot + (mp.superlevel_lte_pops[n] \div config[n].g),
                         n + 1, steps + 1)
  ELSE steps

\* the while loop of superlevel.c 52-57 again: the number of passes it makes
RECURSIVE choose_count(_, _, _, _, _, _)
choose_count(mp, k, threshold, run_tot, n, steps) ==
  IF run_tot < threshold /\ n < ion[k].first_nlte_level + ion[k].nlte
  THEN choose_count(mp, k, threshold,
                    run_tot + (mp.superlevel_lte_pops[n] \div config[n].g),
                    n + 1, steps + 1)
  ELSE steps

\* passes of the loop made by choose_superlevel_deactivation for the draw z
choose_steps(mp, uplvl, z) ==
  LET k == config[uplvl].nion
  IN  choose_count(mp, k, Mul(z, mp.superlevel_norm[k]), 0, mp.superlevel_threshold[k], 0)

\* ---- bounds and inputs ----
MaxCycle == 1

\* values of (rand() + 0.5) / MAXRAND: an even grid over (0, 1], and 0.82
Grid == { (j * SCALE) \div 20 : j \in 1 .. 20 }

Draws == Grid \cup { 8200 }

\* the draws the transport phase makes in the cycle model
CycleDraws == { SCALE \div 4, SCALE \div 2, SCALE }

SuperlevelIons == { k \in 0 .. (nions - 1) : ion[k].has_superlevel = 1 }

top(k) == ion[k].first_nlte_level + ion[k].nlte - 1

\* the levels a macro atom can be in when it deactivates from a superlevel ion
UpperLevels == { top(k) : k \in SuperlevelIons }

\* level densities the previous cycle may have left: none, LTE at some
\* temperature, and LTE with the topmost level overpopulated
History(te, over) ==
  [d \in 0 .. (NLTE_LEVELS - 1) |->
     IF ion[config[d].nion].has_superlevel = 1
     THEN lte_pop(d, ion[config[d].nion].first_nlte_level, BOLTZMANN * te)
          * (IF d = top(config[d].nion) THEN over ELSE 1)
     ELSE 0]

\* LTE with one level in the middle of the six-level ladder at twice its LTE
\* population: a departure coefficient of exactly 1/2
MidHistory ==
  [d \in 0 .. (NLTE_LEVELS - 1) |->
     IF d = ion[4].first_levden + 3
     THEN 2 * History(1 * SCALE, 1)[d]
     ELSE History(1 * SCALE, 1)[d]]

Histories == { ZeroLevden } \cup { History(te, 1) : te \in { 1 * SCALE } }
               \cup { History(te, 4) : te \in { 2 * SCALE } }
               \cup { MidHistory }

PlasmaCells == [t_e : Temps, levden : Histories]

sl_frame == UNCHANGED << pf_vars, matom_vars, tr_vars, wind_vars >>

\* setup_superlevels (), superlevel.c 102-151, called once at the start of a cycle
setup_superlevels ==
  /\ sl_op \in { "none", "cycle" }
  /\ macromain' = [c \in Cells |-> setup_ions(plasmamain[c], macromain[c], 0, wcycle)]
  /\ setups' = setups + 1
  /\ sl_op' = "setup"
  /\ sample' = NoSample
  /\ UNCHANGED << plasmamain, wcycle, sl_errors >>
  /\ sl_frame

\* setup_superlevels () called a second time in the same cycle, nothing changed between
setup_superlevels_again ==
  /\ sl_op = "setup"
  /\ macromain' = [c \in Cells |-> setup_ions(plasmamain[c], macromain[c], 0, wcycle)]
  /\ setups' = setups + 1
  /\ sl_op' = "resetup"
  /\ sample' = NoSample
  /\ UNCHANGED << plasmamain, wcycle, sl_errors >>
  /\ sl_frame

\* choose_superlevel_deactivation (xplasma, uplvl) with the draw z, superlevel.c 35-77,
\* called in the transport phase, after the rebuild of the cycle
choose_superlevel_deactivation(c, uplvl, z) ==
  /\ sl_op \in { "setup", "resetup", "choose" }
  /\ LET n == choose_n(macromain[c], uplvl, z)
     IN  /\ sample' = [nplasma |-> c, uplvl |-> uplvl, z |-> z, n |-> n,
                        errors |-> choose_errors(macromain[c], uplvl, n),
                        steps |-> choose_steps(macromain[c], uplvl, z)]
         /\ sl_errors' = IF sl_errors + choose_errors(macromain[c], uplvl, n) > 2
                         THEN 2
                         ELSE sl_errors + choose_errors(macromain[c], uplvl, n)
  /\ sl_op' = "choose"
  /\ UNCHANGED << plasmamain, macromain, wcycle, setups >>
  /\ sl_frame

\* the next ionization cycle: the cells carry new temperatures and the level
\* densities of the cycle that ended
next_cycle ==
  /\ wcycle < MaxCycle
  /\ sl_op \in { "setup", "resetup", "choose" }
  /\ wcycle' = wcycle + 1
  /\ plasmamain' \in [Cells -> PlasmaCells]
  /\ sl_op' = "cycle"
  /\ sample' = NoSample
  /\ UNCHANGED << macromain, setups, sl_errors >>
  /\ sl_frame

InitCycles ==
  /\ t_e = SCALE /\ t_r = SCALE /\ w = SCALE
  /\ partition = [k \in 0 .. (nions - 1) |-> 0]
  /\ levden = ZeroLevden
  /\ macro_ioniz_mode = 1
  /\ pc = "idle" /\ op = "none" /\ mode = 0 /\ nion = 0 /\ t = 0 /\ weight = 0
  /\ lv_mode = 0 /\ lv_t = 0 /\ lv_weight = 0 /\ xnion = 1 /\ temp = 0
  /\ errors = 0 /\ levels_calls = 0 /\ calls = 0
  /\ matom_idle
  /\ tr_idle
  /\ wind_idle
  /\ plasmamain \in [Cells -> PlasmaCells]
  /\ macromain = [c \in Cells |-> ZeroMacro]
  /\ wcycle = 0
  /\ setups = 0
  /\ sl_op = "none"
  /\ sample = NoSample
  /\ sl_errors = 0

NextCycles ==
  \/ setup_superlevels
  \/ setup_superlevels_again
  \/ next_cycle
  \/ \E c \in Cells, uplvl \in UpperLevels, z \in CycleDraws :
       choose_superlevel_deactivation(c, uplvl, z)

SpecCycles == InitCycles /\ [][NextCycles]_vars

\* ---- choose_superlevel_deactivation as a function of the tables and the draw ----
\* the tables of the worked example: four aggregated levels of ion 4 with
\* lte_pop / g = 0.5, 0.3, 0.15, 0.05 and norm 1
ExampleIon == 4

ExampleMacro ==
  LET first == setup_ions([t_e |-> 1 * SCALE, levden |-> ZeroLevden], ZeroMacro, 0, 0)
      thr == top(ExampleIon) - 3
  IN  [superlevel_lte_pops |->
         [m \in Levels |->
            IF m = thr THEN (config[m].g * SCALE) \div 2
            ELSE IF m = thr + 1 THEN (config[m].g * 3 * SCALE) \div 10
            ELSE IF m = thr + 2 THEN (config[m].g * 15 * SCALE) \div 100
            ELSE IF m = thr + 3 THEN (config[m].g * 5 * SCALE) \div 100
            ELSE first.superlevel_lte_pops[m]],
       superlevel_threshold |-> [first.superlevel_threshold EXCEPT ![ExampleIon] = thr],
       superlevel_norm |-> [first.superlevel_norm EXCEPT ![ExampleIon] = SCALE]]

\* tables as one call of setup_superlevels builds them from zeroed tables, on
\* the first cycle or on a later one, and the tables of the worked example
SampleMacros ==
  { setup_ions(xp, ZeroMacro, 0, cycle) : xp \in PlasmaCells, cycle \in { 0, 1 } }
    \cup { ExampleMacro }

InitSample ==
  /\ t_e = SCALE /\ t_r = SCALE /\ w = SCALE
  /\ partition = [k \in 0 .. (nions - 1) |-> 0]
  /\ levden = ZeroLevden
  /\ macro_ioniz_mode = 1
  /\ pc = "idle" /\ op = "none" /\ mode = 0 /\ nion = 0 /\ t = 0 /\ weight = 0
  /\ lv_mode = 0 /\ lv_t = 0 /\ lv_weight = 0 /\ xnion = 1 /\ temp = 0
  /\ errors = 0 /\ levels_calls = 0 /\ calls = 0
  /\ matom_idle
  /\ tr_idle
  /\ wind_idle
  /\ plasmamain = [c \in Cells |-> [t_e |-> SCALE, levden |-> ZeroLevden]]
  /\ macromain \in [Cells -> SampleMacros]
  /\ wcycle = 0
  /\ setups = 1
  /\ sl_op = "setup"
  /\ sample = NoSample
  /\ sl_errors = 0

NextSample ==
  \E c \in Cells, uplvl \in UpperLevels, z \in Draws :
    choose_superlevel_deactivation(c, uplvl, z)

SpecSample == InitSample /\ [][NextSample]_vars

\* ------------------------------------------------------------------------
\* Vocabulary of the superlevel claims
\* ------------------------------------------------------------------------
\* lte_pop[n] / g_n as the tables of a cell hold it
WeightOf(mp) == [n \in Levels |-> mp.superlevel_lte_pops[n] \div config[n].g]

\* the levels the tables of a cell aggregate for ion k
Aggregated(mp, k) == mp.superlevel_threshold[k] .. top(k)

\* ------------------------------------------------------------------------
\* C15: on the first iteration (geo.wcycle = 0) get_superlevel_threshold
\* returns exactly the index of the ion's topmost reduced level, for every cell
\* and whatever level densities the cell holds.
\* ------------------------------------------------------------------------
C15_FirstCycleTop ==
  (wcycle = 0 /\ setups > 0)
    => \A c \in Cells : \A k \in SuperlevelIons :
         macromain[c].superlevel_threshold[k] = top(k)

C15_Witness ==
  /\ wcycle = 0
  /\ sl_op = "setup"
  /\ plasmamain[0].levden = History(1 * SCALE, 1)
  /\ plasmamain[0].t_e = 1 * SCALE
  /\ plasmamain[1].levden = ZeroLevden
  /\ macromain[0].superlevel_threshold[4] = top(4)
  /\ macromain[1].superlevel_threshold[1] = top(1)

\* ------------------------------------------------------------------------
\* C16 (as stated): the stored threshold never falls below the aggregation
\* floor measured from the ion's topmost level, i.e. it stays within
\* LOWEST_SUPERLEVEL_THRESHOLD levels of the top.
\* ------------------------------------------------------------------------
C16_FloorFromTop ==
  setups > 0
    => \A c \in Cells : \A k \in SuperlevelIons :
         macromain[c].superlevel_threshold[k] >= top(k) - LOWEST_SUPERLEVEL_THRESHOLD

\* C16 (amended): the stored threshold never falls below the aggregation floor
\* measured from the ion's ground level: threshold - first_nlte_level is at
\* least LOWEST_SUPERLEVEL_THRESHOLD, and on later cycles exceeds it.
C16_FloorFromGround ==
  setups > 0
    => \A c \in Cells : \A k \in SuperlevelIons :
         /\ macromain[c].superlevel_threshold[k] - ion[k].first_nlte_level
              >= LOWEST_SUPERLEVEL_THRESHOLD
         /\ macromain[c].superlevel_threshold[k] # top(k)
              => macromain[c].superlevel_threshold[k] - ion[k].first_nlte_level
                   > LOWEST_SUPERLEVEL_THRESHOLD

C16_Witness ==
  /\ wcycle = 1
  /\ sl_op = "setup"
  /\ plasmamain[0].levden = History(1 * SCALE, 1)
  /\ plasmamain[0].t_e = 1 * SCALE
  /\ macromain[0].superlevel_threshold[4]
       = ion[4].first_nlte_level + LOWEST_SUPERLEVEL_THRESHOLD + 1
  /\ macromain[0].superlevel_threshold[4] < top(4) - LOWEST_SUPERLEVEL_THRESHOLD

\* ------------------------------------------------------------------------
\* C17: after every call of setup_superlevels, in any sequence of iterations,
\* superlevel_norm[ion] of every cell and superlevel ion is the sum over
\* n = threshold .. top of superlevel_lte_pops[n] / g_n of that same call.
\* ------------------------------------------------------------------------
C17_NormIsSum ==
  sl_op = "setup"
    => \A c \in Cells : \A k \in SuperlevelIons :
         macromain[c].superlevel_norm[k]
           = SumOver(Aggregated(macromain[c], k), WeightOf(macromain[c]))

\* ------------------------------------------------------------------------
\* C18: for a target t = u * superlevel_norm[ion], u in (0,1],
\* choose_superlevel_deactivation returns the lowest level k >= threshold whose
\* cumulative weight, the sum of superlevel_lte_pops[n] / g_n over
\* n = threshold .. k, meets or exceeds t; a target equal to a cumulative sum
\* selects the level that reaches it.
\* ------------------------------------------------------------------------
\* the tables, the ion and the target of the call recorded in sample
SampleMacro == macromain[sample.nplasma]

SampleIon == config[sample.uplvl].nion

SampleTarget == Mul(sample.z, SampleMacro.superlevel_norm[SampleIon])

Cumulative(mp, k, j) == SumOver(mp.superlevel_threshold[k] .. j, WeightOf(mp))

Reaching(mp, k, target) == { j \in Aggregated(mp, k) : Cumulative(mp, k, j) >= target }

C18_LowestReachingLevel ==
  (sl_op = "choose" /\ Reaching(SampleMacro, SampleIon, SampleTarget) # {})
    => /\ sample.n \in Reaching(SampleMacro, SampleIon, SampleTarget)
       /\ \A j \in Reaching(SampleMacro, SampleIon, SampleTarget) : sample.n <= j

C18_Witness ==
  /\ sl_op = "choose"
  /\ sample.z < SCALE
  /\ sample.n > SampleMacro.superlevel_threshold[SampleIon]
  /\ sample.n < top(SampleIon)
  /\ Cumulative(SampleMacro, SampleIon, sample.n) = SampleTarget

\* ------------------------------------------------------------------------
\* C19 (as stated): with four aggregated levels of weights lte_pop / g =
\* [0.5, 0.3, 0.15, 0.05], norm 1 and the draw 0.82,
\* choose_superlevel_deactivation returns level threshold + 3.
\* ------------------------------------------------------------------------
ExampleCall ==
  /\ sl_op = "choose"
  /\ SampleIon = ExampleIon
  /\ sample.z = 8200
  /\ SampleMacro.superlevel_norm[SampleIon] = SCALE
  /\ SampleMacro.superlevel_threshold[SampleIon] = top(SampleIon) - 3
  /\ \A j \in 0 .. 3 :
       WeightOf(SampleMacro)[top(SampleIon) - 3 + j] = << 5000, 3000, 1500, 500 >>[j + 1]

C19_ExampleFourthLevel ==
  ExampleCall => sample.n = SampleMacro.superlevel_threshold[SampleIon] + 3

\* C19 (amended): in that example choose_superlevel_deactivation returns level
\* threshold + 2, the third aggregated level, whose span [0.8, 0.95) holds 0.82.
C19_ExampleThirdLevel ==
  ExampleCall => sample.n = SampleMacro.superlevel_threshold[SampleIon] + 2

C19_Witness ==
  /\ ExampleCall
  /\ sample.n = top(ExampleIon) - 1
  /\ sl_errors = 0

\* ------------------------------------------------------------------------
\* C20: sampling is unbiased after any number of setup_superlevels rebuilds:
\* over draws spread evenly over (0,1], the fraction of draws for which
\* choose_superlevel_deactivation returns the aggregated level n is
\* (superlevel_lte_pops[n] / g_n) divided by the sum of these weights over
\* n = threshold .. top (here: to within one draw of the grid).
\* ------------------------------------------------------------------------
Returning(mp, k, n) == { z \in Grid : choose_n(mp, top(k), z) = n }

TotalWeight(mp, k) == SumOver(Aggregated(mp, k), WeightOf(mp))

Unbiased(mp, k) ==
  \A n \in Aggregated(mp, k) :
    Abs(Cardinality(Returning(mp, k, n)) * TotalWeight(mp, k)
          - Cardinality(Grid) * WeightOf(mp)[n]) <= TotalWeight(mp, k)

C20_Unbiased ==
  setups > 0 => \A c \in Cells : \A k \in SuperlevelIons : Unbiased(macromain[c], k)

\* ------------------------------------------------------------------------
\* C21: whenever the walk of choose_superlevel_deactivation reaches the top of
\* the ion's ladder with the running sum still below the target, an error is
\* logged, and the routine still returns a candidate level.
\* ------------------------------------------------------------------------
\* the recorded call walked its whole aggregate without meeting its target
WalkExhausted ==
  /\ sl_op = "choose"
  /\ Aggregated(SampleMacro, SampleIon) # {}
  /\ TotalWeight(SampleMacro, SampleIon) < SampleTarget

C21_ExhaustedWalkLogged ==
  WalkExhausted => (sample.errors > 0 /\ sample.n \in Levels)

\* ------------------------------------------------------------------------
\* C22: choose_superlevel_deactivation always terminates and never aborts: for
\* every table and draw it makes at most top - threshold + 1 accumulation
\* steps and then returns a level index.
\* ------------------------------------------------------------------------
C22_BoundedWalk ==
  sl_op = "choose"
    => /\ sample.steps >= 0
       /\ sample.steps <= top(SampleIon) - SampleMacro.superlevel_threshold[SampleIon] + 1
       /\ sample.n \in 0 .. NLTE_LEVELS

C22_Witness ==
  /\ WalkExhausted
  /\ wcycle = 1
  /\ sample.steps >= 3
  /\ sample.steps = top(SampleIon) - SampleMacro.superlevel_threshold[SampleIon] + 1
  /\ sample.n = top(SampleIon)

\* ========================================================================
\* The transport phase: threads call choose_superlevel_deactivation on shared
\* tables, each statement of superlevel.c 43-76 a step of its own
\* ========================================================================
TransportDraws == CycleDraws \cup { 8200 }

\* tables the rebuild left before transport began
TransportMacros ==
  { ExampleMacro,
    setup_ions([t_e |-> 1 * SCALE, levden |-> History(1 * SCALE, 1)], ZeroMacro, 0, 1) }

tr_frame == UNCHANGED << pf_vars, matom_vars, wind_vars, plasmamain, macromain, wcycle,
                         setups, sl_op, sample >>

\* entry, superlevel.c 43-50: the cell's tables are read into the locals
tr_call(th, c, uplvl, z) ==
  /\ threads[th].pc \in { "idle", "done" }
  /\ threads' = [threads EXCEPT ![th] =
                   [pc |-> "walk", nplasma |-> c, uplvl |-> uplvl, z |-> z,
                    threshold |-> Mul(z, macromain[c].superlevel_norm[config[uplvl].nion]),
                    run_tot |-> 0,
                    n |-> macromain[c].superlevel_threshold[config[uplvl].nion],
                    result |-> 0]]
  /\ UNCHANGED sl_errors
  /\ tr_frame

\* the loop condition of superlevel.c 52
tr_walking(th) ==
  /\ threads[th].run_tot < threads[th].threshold
  /\ threads[th].n < ion[config[threads[th].uplvl].nion].first_nlte_level
                       + ion[config[threads[th].uplvl].nion].nlte

\* variant: run_tot is one variable shared by the threads
tr_step_shared(th) ==
  /\ threads[th].pc = "walk"
  /\ tr_walking(th)
  /\ LET add == macromain[threads[th].nplasma].superlevel_lte_pops[threads[th].n]
                  \div config[threads[th].n].g
     IN  threads' = [x \in Threads |->
                       IF x = th
                       THEN [threads[x] EXCEPT !.run_tot = @ + add, !.n = @ + 1]
                       ELSE IF threads[x].pc = "walk"
                       THEN [threads[x] EXCEPT !.run_tot = @ + add]
                       ELSE threads[x]]
  /\ UNCHANGED sl_errors
  /\ tr_frame

\* one pass of the loop, superlevel.c 52-57
tr_step(th) ==
  /\ threads[th].pc = "walk"
  /\ tr_walking(th)
  /\ threads' = [threads EXCEPT
                   ![th].run_tot = @ + (macromain[threads[th].nplasma]
                                          .superlevel_lte_pops[threads[th].n]
                                        \div config[threads[th].n].g),
                   ![th].n = @ + 1]
  /\ UNCHANGED sl_errors
  /\ tr_frame

\* the step back, the two error tests and the return, superlevel.c 60-76
tr_return(th) ==
  /\ threads[th].pc = "walk"
  /\ ~ tr_walking(th)
  /\ LET mp == macromain[threads[th].nplasma]
         k == config[threads[th].uplvl].nion
         n == IF threads[th].n > mp.superlevel_threshold[k]
              THEN threads[th].n - 1
              ELSE threads[th].n
     IN  /\ threads' = [threads EXCEPT ![th].pc = "done", ![th].n = n, ![th].result = n]
         /\ sl_errors' = IF sl_errors + choose_errors(mp, threads[th].uplvl, n) > 2
                         THEN 2
                         ELSE sl_errors + choose_errors(mp, threads[th].uplvl, n)
  /\ tr_frame

InitTransport ==
  /\ t_e = SCALE /\ t_r = SCALE /\ w = SCALE
  /\ partition = [k \in 0 .. (nions - 1) |-> 0]
  /\ levden = ZeroLevden
  /\ macro_ioniz_mode = 1
  /\ pc = "idle" /\ op = "none" /\ mode = 0 /\ nion = 0 /\ t = 0 /\ weight = 0
  /\ lv_mode = 0 /\ lv_t = 0 /\ lv_weight = 0 /\ xnion = 1 /\ temp = 0
  /\ errors = 0 /\ levels_calls = 0 /\ calls = 0
  /\ matom_idle
  /\ tr_idle
  /\ wind_idle
  /\ plasmamain = [c \in Cells |-> [t_e |-> SCALE, levden |-> History(1 * SCALE, 1)]]
  /\ macromain \in [Cells -> TransportMacros]
  /\ wcycle = 1
  /\ setups = 1
  /\ sl_op = "setup"
  /\ sample = NoSample
  /\ sl_errors = 0

NextTransport ==
  \/ \E th \in Threads, c \in Cells, uplvl \in UpperLevels, z \in TransportDraws :
       tr_call(th, c, uplvl, z)
  \/ \E th \in Threads : tr_step(th)
  \/ \E th \in Threads : tr_return(th)

SpecTransport == InitTransport /\ [][NextTransport]_vars

\* ------------------------------------------------------------------------
\* C23: choose_superlevel_deactivation leaves the cell's superlevel_threshold,
\* superlevel_norm, superlevel_lte_pops and the PlasmaCell unchanged, so in any
\* interleaving of concurrent calls on a cell, with no rebuild running, each
\* call returns the level it returns when run alone with the same draw.
\* ------------------------------------------------------------------------
C23_ReadOnlySampling ==
  [][ /\ macromain' = macromain
      /\ plasmamain' = plasmamain
      /\ \A th \in Threads :
           threads'[th].pc = "done"
             => threads'[th].result = choose_n(macromain[threads'[th].nplasma],
                                               threads'[th].uplvl, threads'[th].z) ]_vars

C23_Witness ==
  /\ threads[1].pc = "done"
  /\ threads[2].pc = "walk"
  /\ threads[1].nplasma = threads[2].nplasma
  /\ threads[1].uplvl = threads[2].uplvl
  /\ threads[1].z # threads[2].z
  /\ threads[2].n > macromain[threads[2].nplasma].superlevel_threshold[config[threads[2].uplvl].nion]
  /\ threads[1].result > macromain[threads[1].nplasma].superlevel_threshold[config[threads[1].uplvl].nion]

\* ------------------------------------------------------------------------
\* C24: on iterations after the first, get_superlevel_threshold returns the
\* lowest level index t such that every level from t up to the topmost level
\* has a departure coefficient strictly between 1/2 and 2; the walk stops at
\* the first level whose coefficient is outside the open band (exactly 1/2 or
\* 2 stops it) or at the aggregation floor.
\* ------------------------------------------------------------------------
\* the tables of the cells are those of the last rebuild and the level
\* densities are the ones that rebuild read
Rebuilt == sl_op \in { "setup", "resetup", "choose" }

\* last cycle's population of level n relative to the ground population, and
\* this cycle's LTE population relative to ground, compared without division:
\* 1/2 < lte / (den / ground_den) < 2
StrictlyInBand(c, k, n) ==
  LET den == plasmamain[c].levden[ion[k].first_levden + (n - ion[k].first_nlte_level)]
      ground_den == plasmamain[c].levden[ion[k].first_levden]
      lte == macromain[c].superlevel_lte_pops[n]
  IN  /\ den > 0
      /\ ground_den > 0
      /\ 2 * lte * ground_den > den * SCALE
      /\ lte * ground_den < 2 * den * SCALE

C24_ThresholdBand ==
  (Rebuilt /\ wcycle > 0)
    => \A c \in Cells : \A k \in SuperlevelIons :
         LET thr == macromain[c].superlevel_threshold[k]
         IN  /\ \A n \in thr .. top(k) : StrictlyInBand(c, k, n)
             /\ thr - 1 >= ion[k].first_nlte_level
             /\ \/ ~ StrictlyInBand(c, k, thr - 1)
                \/ (thr - 1) - ion[k].first_nlte_level <= LOWEST_SUPERLEVEL_THRESHOLD

C24_Witness ==
  /\ sl_op = "setup"
  /\ wcycle > 0
  /\ plasmamain[0].levden = MidHistory
  /\ macromain[0].superlevel_threshold[4] = ion[4].first_nlte_level + 4
  /\ StrictlyInBand(0, 4, top(4))
  /\ StrictlyInBand(0, 4, top(4) - 1)
  /\ ~ StrictlyInBand(0, 4, top(4) - 2)
  /\ 2 * macromain[0].superlevel_lte_pops[top(4) - 2] = plasmamain[0].levden[top(4) - 2]
  /\ plasmamain[1].levden = History(1 * SCALE, 1)
  /\ macromain[1].superlevel_threshold[4] < macromain[0].superlevel_threshold[4]

\* ------------------------------------------------------------------------
\* C25: the tables setup_superlevels produces depend only on the current
\* inputs (cell t_e, atomic data, level densities, cycle counter): a second run
\* with unchanged inputs leaves superlevel_threshold, superlevel_norm and
\* superlevel_lte_pops as the first run left them.
\* ------------------------------------------------------------------------
C25_SetupIdempotent ==
  [][ (sl_op = "setup" /\ sl_op' = "resetup") => macromain' = macromain ]_vars

\* ------------------------------------------------------------------------
\* C26: setup_superlevels, for every cell and only for ions flagged
\* has_superlevel, sets superlevel_lte_pops[ground] = 1 and
\* superlevel_lte_pops[n] = (g_n / g_0) * exp(-(ex_n - ex_0) / (k * t_e)) for
\* every other level of the ion's reduced ladder, with the cell's electron
\* temperature; the tables of ions without the flag are left unchanged.
\* ------------------------------------------------------------------------
setup_ran == setups' = setups + 1

LtePopFormula(k, n, te) ==
  IF n = ion[k].first_nlte_level
  THEN SCALE
  ELSE Mul(Div(config[n].g * SCALE, config[ion[k].first_nlte_level].g * SCALE),
           Boltz(ion[k].first_nlte_level, n - ion[k].first_nlte_level, te))

C26_LtePopsOfFlaggedIons ==
  [][ setup_ran
        => \A c \in Cells :
             /\ \A k \in SuperlevelIons :
                  \A n \in ion[k].first_nlte_level .. top(k) :
                    macromain'[c].superlevel_lte_pops[n]
                      = LtePopFormula(k, n, plasmamain[c].t_e)
             /\ \A k \in Ions \ SuperlevelIons :
                  /\ macromain'[c].superlevel_threshold[k]
                       = macromain[c].superlevel_threshold[k]
                  /\ macromain'[c].superlevel_norm[k] = macromain[c].superlevel_norm[k]
                  /\ \A n \in Levels :
                       config[n].nion = k
                         => macromain'[c].superlevel_lte_pops[n]
                              = macromain[c].superlevel_lte_pops[n] ]_vars

C26_Witness ==
  /\ sl_op = "setup"
  /\ wcycle = 1
  /\ plasmamain[0].t_e = 1 * SCALE
  /\ plasmamain[1].t_e = 2 * SCALE
  /\ macromain[0].superlevel_lte_pops[ion[4].first_nlte_level] = SCALE
  /\ macromain[0].superlevel_lte_pops[top(4) - 3] = LtePopFormula(4, top(4) - 3, 1 * SCALE)
  /\ macromain[1].superlevel_lte_pops[top(4) - 3] = LtePopFormula(4, top(4) - 3, 2 * SCALE)
  /\ macromain[1].superlevel_lte_pops[top(4) - 3] > macromain[0].superlevel_lte_pops[top(4) - 3]
  /\ macromain[0].superlevel_lte_pops[0] = 0
  /\ macromain[0].superlevel_lte_pops[ion[2].first_nlte_level] = 0

\* ------------------------------------------------------------------------
\* C27: for each ion it processes, levels writes exactly the levden entries
\* first_levden .. first_levden + nlte - 1 of that ion; it writes no entry of
\* an ion with nlte = 0 and never writes outside the ion's own block.
\* ------------------------------------------------------------------------
OwnBlock(k) == { d \in 0 .. (NLTE_LEVELS - 1) :
                   d >= ion[k].first_levden /\ d < ion[k].first_levden + ion[k].nlte }

C27_LevelsWritesOwnBlock ==
  [][ (pc = "levels_loop" /\ nion' = nion + 1)
        => /\ \A d \in 0 .. (NLTE_LEVELS - 1) :
                levden'[d] # levden[d] => (ion[nion].nlte > 0 /\ d \in OwnBlock(nion))
           /\ (ion[nion].nlte > 0 /\ (ion[nion].macro_info = 0 \/ macro_ioniz_mode = 0))
                => /\ levden'[ion[nion].first_levden] > 0
                   /\ \A d \in OwnBlock(nion) :
                        levden'[d] = get_boltzmann_populations(ZeroLevden, nion, lv_weight,
                                                               lv_t, partition[nion],
                                                               ion[nion].first_levden)[d] ]_vars

C27_Witness ==
  /\ pc = "levels_loop"
  /\ macro_ioniz_mode = 0
  /\ nion = 2
  /\ lv_weight = SCALE
  /\ \A d \in OwnBlock(0) \cup OwnBlock(1) : levden[d] > 0
  /\ \A d \in OwnBlock(2) \cup OwnBlock(4) : levden[d] = 0

\* ========================================================================
\* wind_update (w), wind_updates2d.c 55-165, up to the exchange of the cells
\* ========================================================================
\* get_parallel_nrange: the cells are split into contiguous ranges of equal size
my_nmin(wk) == wk * (NPLASMA \div Cardinality(Workers))

my_nmax(wk) == my_nmin(wk) + (NPLASMA \div Cardinality(Workers))

wu_frame == UNCHANGED << pf_vars, matom_vars, sl_vars, tr_vars, rt_macro, skipped >>

\* entry, wind_updates2d.c 72-85
wu_start(wk) ==
  /\ wu_pc[wk] = "idle"
  /\ wu_pc' = [wu_pc EXCEPT ![wk] = "macro_loop"]
  /\ wu_n' = [wu_n EXCEPT ![wk] = 0]
  /\ UNCHANGED wu_written
  /\ wu_frame

\* one pass of the loop over all cells, wind_updates2d.c 93-105
wu_macro(wk) ==
  /\ wu_pc[wk] = "macro_loop"
  /\ wu_n[wk] < NPLASMA
  /\ wu_written' = IF rt_macro
                   THEN [wu_written EXCEPT ![wk] = @ \cup { << "macromain", wu_n[wk] >> }]
                   ELSE wu_written
  /\ wu_n' = [wu_n EXCEPT ![wk] = @ + 1]
  /\ UNCHANGED wu_pc
  /\ wu_frame

\* the loop over all cells is done, the loop over the worker's range starts,
\* wind_updates2d.c 112
wu_range(wk) ==
  /\ wu_pc[wk] = "macro_loop"
  /\ wu_n[wk] >= NPLASMA
  /\ wu_pc' = [wu_pc EXCEPT ![wk] = "update_loop"]
  /\ wu_n' = [wu_n EXCEPT ![wk] = my_nmin(wk)]
  /\ UNCHANGED wu_written
  /\ wu_frame

\* one pass of the loop over the worker's range, wind_updates2d.c 112-160
wu_cell(wk) ==
  /\ wu_pc[wk] = "update_loop"
  /\ wu_n[wk] < my_nmax(wk)
  /\ wu_written' = IF skipped[wu_n[wk]]
                   THEN wu_written
                   ELSE [wu_written EXCEPT ![wk] = @ \cup { << "plasmamain", wu_n[wk] >> }]
  /\ wu_n' = [wu_n EXCEPT ![wk] = @ + 1]
  /\ UNCHANGED wu_pc
  /\ wu_frame

\* the worker reaches communicate_plasma_cells, wind_updates2d.c 165
wu_communicate(wk) ==
  /\ wu_pc[wk] = "update_loop"
  /\ wu_n[wk] >= my_nmax(wk)
  /\ wu_pc' = [wu_pc EXCEPT ![wk] = "communicate"]
  /\ UNCHANGED << wu_n, wu_written >>
  /\ wu_frame

InitWind ==
  /\ t_e = SCALE /\ t_r = SCALE /\ w = SCALE
  /\ partition = [k \in 0 .. (nions - 1) |-> 0]
  /\ levden = ZeroLevden
  /\ macro_ioniz_mode = 1
  /\ pc = "idle" /\ op = "none" /\ mode = 0 /\ nion = 0 /\ t = 0 /\ weight = 0
  /\ lv_mode = 0 /\ lv_t = 0 /\ lv_weight = 0 /\ xnion = 1 /\ temp = 0
  /\ errors = 0 /\ levels_calls = 0 /\ calls = 0
  /\ matom_idle
  /\ sl_idle
  /\ tr_idle
  /\ rt_macro \in BOOLEAN
  /\ skipped \in [Cells -> BOOLEAN]
  /\ wu_pc = [wk \in Workers |-> "idle"]
  /\ wu_n = [wk \in Workers |-> 0]
  /\ wu_written = [wk \in Workers |-> {}]

NextWind ==
  \E wk \in Workers :
    \/ wu_start(wk)
    \/ wu_macro(wk)
    \/ wu_range(wk)
    \/ wu_cell(wk)
    \/ wu_communicate(wk)

SpecWind == InitWind /\ [][NextWind]_vars

\* ------------------------------------------------------------------------
\* C28: during wind_update, before the exchange of the plasma cells, each
\* worker mutates only the PlasmaCell and MacroCell entries whose index lies
\* in its own range [my_nmin, my_nmax).
\* ------------------------------------------------------------------------
C28_WorkerWritesOwnRange ==
  \A wk \in Workers :
    \A e \in wu_written[wk] : e[2] >= my_nmin(wk) /\ e[2] < my_nmax(wk)

\* ------------------------------------------------------------------------
\* C29: in every state after setup_superlevels, on any iteration and for any
\* level-density history, superlevel_threshold[ion] is the index of a level of
\* the ion's reduced ladder: first_nlte_level <= threshold <= first_nlte_level
\* + nlte - 1; it is never one past the topmost level.
\* ------------------------------------------------------------------------
C29_ThresholdInLadder ==
  setups > 0
    => \A c \in Cells : \A k \in SuperlevelIons :
         /\ ion[k].first_nlte_level <= macromain[c].superlevel_threshold[k]
         /\ macromain[c].superlevel_threshold[k] <= top(k)

\* ------------------------------------------------------------------------
\* C30: for tables produced by any sequence of setup_superlevels calls and for
\* every draw, the level choose_superlevel_deactivation returns belongs to the
\* aggregated block of the upper level's ion: threshold <= returned level <=
\* first_nlte_level + nlte - 1.
\* ------------------------------------------------------------------------
C30_ReturnedLevelAggregated ==
  sl_op = "choose"
    => /\ SampleMacro.superlevel_threshold[SampleIon] <= sample.n
       /\ sample.n <= top(SampleIon)

====
